---------------------------- MODULE Spec2Model ----------------------------
(***************************************************************************)
(* Model of radeco-lib's analysis containers and loaders                   *)
(* (src/src/frontend/radeco_containers.rs): the function-identification    *)
(* pipeline (FunctionLoader), the module loader (ModuleLoader::load),      *)
(* binding inference (init_fn_bindings) and the call-graph queries         *)
(* (CGInfo for CallGraph).                                                 *)
(*                                                                         *)
(* Conventions.  Option<T> is a sequence of length 0 (None) or 1 (Some).   *)
(* A map (BTreeMap / HashMap) is a TLA+ function over its key set.  A      *)
(* petgraph NodeIndex is a natural number counted from 0; node i of a      *)
(* graph is element i+1 of its node sequence.                              *)
(***************************************************************************)
EXTENDS Integers, Sequences, FiniteSets, TLC

VARIABLES
    pc,        \* position of the operation in progress
    src,       \* the answers of the Source (symbols, imports, functions, ...)
    floader,   \* FunctionLoader { source, strategies }
    mloader,   \* ModuleLoader flags and filter
    rmod,      \* the RadecoModule under construction
    acc,       \* FLResult accumulator of FunctionLoader::load's fold
    fidx,      \* number of strategies the fold has consumed
    hist,      \* observation log: one record per strategy / construct call
    workers,   \* parallel SSA workers: offset -> position
    regfile,   \* SubRegisterFile.alias_info still to be iterated (binding spec)
    rfn,       \* the function init_fn_bindings works on (binding spec)
    tbindings, \* bindings emitted so far by init_fn_bindings
    cg,        \* a CallGraph (call-graph query spec)
    qres       \* result of the last callers / callees query

vars == <<pc, src, floader, mloader, rmod, acc, fidx, hist, workers,
          regfile, rfn, tbindings, cg, qres>>

---------------------------------------------------------------------------
(* Bounds of the model.                                                    *)

MaxStrategies == 2
MaxNodes == 2
MaxEdges == 3

---------------------------------------------------------------------------
(* Option values and small helpers.                                        *)

None == <<>>

Some(x) == <<x>>

IsSome(o) == Len(o) = 1

Unwrap(o) == o[1]

Ok(v) == [ok |-> TRUE, val |-> v]

Err == [ok |-> FALSE, val |-> <<>>]

Range(s) == {s[i] : i \in 1..Len(s)}

EmptyMap == [k \in {} |-> 0]

\* petgraph: NodeIndex derives Default, so the default index is 0.
DefaultNodeIndex == 0

\* petgraph: NodeIndex::end() is u32::MAX, an index no graph node has.  It is
\* written here as the largest integer TLC represents.
NodeIndexEnd == 2147483647

---------------------------------------------------------------------------
(* RadecoFunction and SSA storage.                                         *)

\* SSAStorage as the loader sees it: entry_node(), exit_node(), and for each
\* the register snapshot registers_in(node) with its operands, None when
\* absent.  A snapshot operand is [node, comment]: the operand's node index
\* and Some(register name) when its node type is Comment, None otherwise.
\* SSAStorage::default() has no entry node and no exit node.
DefaultSSA == [entry |-> None, exit |-> None, entry_regs |-> None, exit_regs |-> None]

Operand(node, comment) == [node |-> node, comment |-> comment]

\* #[derive(Default)] on RadecoFunction: every field at its default.
DefaultRadecoFunction ==
    [name |-> "", offset |-> 0, size |-> 0, instructions |-> <<>>,
     datarefs |-> <<>>, ssa |-> DefaultSSA, cgid |-> DefaultNodeIndex,
     bindings |-> <<>>]

\* FLResult::default(): empty map, counter 0.
DefaultFLResult == [functions |-> EmptyMap, new |-> 0]

\* BTreeMap::insert: the key is bound to v, replacing an earlier binding.
MapInsert(m, k, v) ==
    [x \in DOMAIN m \cup {k} |-> IF x = k THEN v ELSE m[x]]

\* A variant that keeps the earlier binding on a key collision.
MapExtendKeepFirst(m, other) ==
    [x \in DOMAIN m \cup DOMAIN other |-> IF x \in DOMAIN m THEN m[x] ELSE other[x]]

\* BTreeMap::extend: insert every pair of `other`; on a key collision the
\* value of `other` replaces the one in m.
MapExtend(m, other) ==
    [x \in DOMAIN m \cup DOMAIN other |-> IF x \in DOMAIN other THEN other[x] ELSE m[x]]

---------------------------------------------------------------------------
(* loader_defaults: the two built-in strategies.  A strategy outcome is    *)
(* [panic, fl]: panic is TRUE when an unwrap() of None aborts the call.    *)

Outcome(fl) == [panic |-> FALSE, fl |-> fl]

Panicked == [panic |-> TRUE, fl |-> DefaultFLResult]

IsFuncSymbol(s) == s.stype = Some("Func")

RECURSIVE FoldSymbols(_, _)
FoldSymbols(symbols, a) ==
    IF symbols = <<>> THEN Outcome(a)
    ELSE LET s == Head(symbols) IN
         IF ~IsFuncSymbol(s) THEN FoldSymbols(Tail(symbols), a)
         ELSE IF ~IsSome(s.name) \/ ~IsSome(s.vaddr) \/ ~IsSome(s.size)
              THEN Panicked
              ELSE LET f == [DefaultRadecoFunction EXCEPT
                                 !.name = Unwrap(s.name),
                                 !.offset = Unwrap(s.vaddr),
                                 !.size = Unwrap(s.size)]
                   IN FoldSymbols(Tail(symbols),
                                  [functions |-> MapInsert(a.functions, f.offset, f),
                                   new |-> a.new + 1])

RECURSIVE FoldSymbolsNoOffset(_, _)
\* A fold that files each function under the symbol's address without
\* storing the address in the function.
FoldSymbolsNoOffset(symbols, a) ==
    IF symbols = <<>> THEN Outcome(a)
    ELSE LET s == Head(symbols) IN
         IF ~IsFuncSymbol(s) THEN FoldSymbolsNoOffset(Tail(symbols), a)
         ELSE IF ~IsSome(s.name) \/ ~IsSome(s.vaddr) \/ ~IsSome(s.size)
              THEN Panicked
              ELSE LET f == [DefaultRadecoFunction EXCEPT
                                 !.name = Unwrap(s.name),
                                 !.size = Unwrap(s.size)]
                   IN FoldSymbolsNoOffset(Tail(symbols),
                                  [functions |-> MapInsert(a.functions, Unwrap(s.vaddr), f),
                                   new |-> a.new + 1])

strat_use_symbols_no_offset(source, fl, m) ==
    FoldSymbolsNoOffset(m.symbols, DefaultFLResult)

\* loader_defaults::strat_use_symbols.
strat_use_symbols(source, fl, m) == FoldSymbols(m.symbols, DefaultFLResult)

RECURSIVE FoldSourceFunctions(_, _)
FoldSourceFunctions(functions, a) ==
    IF functions = <<>> THEN Outcome(a)
    ELSE LET fi == Head(functions) IN
         IF ~IsSome(fi.offset) \/ ~IsSome(fi.size) \/ ~IsSome(fi.name)
         THEN Panicked
         ELSE LET f == [DefaultRadecoFunction EXCEPT
                            !.offset = Unwrap(fi.offset),
                            !.size = Unwrap(fi.size),
                            !.name = Unwrap(fi.name)]
              IN FoldSourceFunctions(Tail(functions),
                                     [functions |-> MapInsert(a.functions, f.offset, f),
                                      new |-> a.new + 1])

strat_use_source(source, fl, m) ==
    IF IsSome(source)
    THEN IF Unwrap(source).functions.ok
         THEN FoldSourceFunctions(Unwrap(source).functions.val, DefaultFLResult)
         ELSE Outcome(DefaultFLResult)
    ELSE Outcome(fl)

---------------------------------------------------------------------------
(* FunctionLoader: an ordered list of PredicatedLoader values.  A strategy *)
(* is [kind, pred, out]: kind names the callable (the two built-ins, or a  *)
(* caller-supplied one returning the fixed FLResult `out`), pred names its *)
(* predicate.                                                              *)

UseSymbols == [kind |-> "use_symbols", pred |-> "always", out |-> DefaultFLResult]

UseSource == [kind |-> "use_source", pred |-> "always", out |-> DefaultFLResult]

\* PredicatedLoader::predicate: `true` unless the implementor overrides it.
predicate(s, x) ==
    CASE s.pred = "always" -> TRUE
      [] s.pred = "if_empty" -> DOMAIN x.functions = {}
      [] s.pred = "never" -> FALSE

\* PredicatedLoader::strategy: the blanket impl calls the callable.
strategy(s, source, last, m) ==
    CASE s.kind = "use_symbols" -> strat_use_symbols(source, last, m)
      [] s.kind = "use_source" -> strat_use_source(source, last, m)
      [] s.kind = "custom" -> Outcome(s.out)

\* What one iteration of the fold did: whether the strategy was invoked
\* (ran), the FLResult handed to predicate and strategy (last), what the
\* strategy returned (out), and the accumulator afterwards (fl).
Iter(panic, ran, last, out, fl) ==
    [panic |-> panic, ran |-> ran, last |-> last, out |-> out, fl |-> fl]

\* A fold body that lets the earlier entry win on a key collision.
FoldBodyKeepFirst(a, s, source, m) ==
    IF predicate(s, a)
    THEN LET r == strategy(s, source, a, m) IN
         IF r.panic THEN Iter(TRUE, TRUE, a, DefaultFLResult, a)
         ELSE Iter(FALSE, TRUE, a, r.fl,
                   [functions |-> MapExtendKeepFirst(a.functions, r.fl.functions),
                    new |-> a.new + r.fl.new])
    ELSE Iter(FALSE, FALSE, a, DefaultFLResult, a)

\* A fold body that hands every strategy the empty FLResult instead of acc.
FoldBodyFreshLast(a, s, source, m) ==
    IF predicate(s, DefaultFLResult)
    THEN LET r == strategy(s, source, DefaultFLResult, m) IN
         IF r.panic THEN Iter(TRUE, TRUE, DefaultFLResult, DefaultFLResult, a)
         ELSE Iter(FALSE, TRUE, DefaultFLResult, r.fl,
                   [functions |-> MapExtend(a.functions, r.fl.functions),
                    new |-> a.new + r.fl.new])
    ELSE Iter(FALSE, FALSE, DefaultFLResult, DefaultFLResult, a)

\* The closure of FunctionLoader::load's fold: one strategy applied to acc.
FoldBody(a, s, source, m) ==
    IF predicate(s, a)
    THEN LET r == strategy(s, source, a, m) IN
         IF r.panic THEN Iter(TRUE, TRUE, a, DefaultFLResult, a)
         ELSE Iter(FALSE, TRUE, a, r.fl,
                   [functions |-> MapExtend(a.functions, r.fl.functions),
                    new |-> a.new + r.fl.new])
    ELSE Iter(FALSE, FALSE, a, DefaultFLResult, a)

RECURSIVE FoldStrategies(_, _, _, _)
FoldStrategies(strategies, a, source, m) ==
    IF strategies = <<>> THEN Outcome(a)
    ELSE LET r == FoldBody(a, Head(strategies), source, m) IN
         IF r.panic THEN Panicked
         ELSE FoldStrategies(Tail(strategies), r.fl, source, m)

\* FunctionLoader::load as one call (used by ModuleLoader::load).
FunctionLoaderLoad(fl, m) ==
    FoldStrategies(fl.strategies, DefaultFLResult, fl.source, m)

\* include_defaults pushing the two built-ins in the opposite order.
IncludeDefaultsSourceFirst(strategies) == strategies \o <<UseSource, UseSymbols>>

\* FunctionLoader::include_defaults: push use-symbols, then use-source.
IncludeDefaults(strategies) == strategies \o <<UseSymbols, UseSource>>

\* FunctionLoader::default(): no source, no strategies.
DefaultFunctionLoader == [source |-> None, strategies |-> <<>>]

---------------------------------------------------------------------------
(* CallGraph = petgraph Graph<u64, CallContextInfo>.                       *)

EmptyGraph == [nodes |-> <<>>, edges |-> <<>>]

\* Graph::add_node: the new node gets the next index.
AddNode(g, w) == [g EXCEPT !.nodes = Append(@, w)]

\* Graph::add_edge(a, b, weight); the weight's csite is kept, the other
\* fields of CallContextInfo play no part in the queries.
AddEdge(g, a, b, csite) ==
    [g EXCEPT !.edges = Append(@, [source |-> a, target |-> b, csite |-> csite])]

NodeIndices(g) == 0..(Len(g.nodes) - 1)

\* Graph::node_weight(n).
NodeWeight(g, n) == g.nodes[n + 1]

RECURSIVE EdgesFrom(_, _, _, _)
\* The edges among the first i whose endpoint on side `dir` is idx, the most
\* recently added first (petgraph walks the per-node edge list from its head).
EdgesFrom(g, idx, dir, i) ==
    IF i = 0 THEN <<>>
    ELSE LET e == g.edges[i]
             hit == IF dir = "Outgoing" THEN e.source = idx ELSE e.target = idx
         IN (IF hit THEN <<e>> ELSE <<>>) \o EdgesFrom(g, idx, dir, i - 1)

\* Graph::edges_directed(idx, dir) of a directed graph.
EdgesDirected(g, idx, dir) == EdgesFrom(g, idx, dir, Len(g.edges))

\* EdgeRef::source / EdgeRef::target of a directed edge.
EdgeSource(e) == e.source

EdgeTarget(e) == e.target

\* CGInfo::callers: |er| (er.weight().csite, er.target()) over incoming edges.
callers(g, idx) ==
    LET es == EdgesDirected(g, idx, "Incoming")
    IN [i \in 1..Len(es) |-> <<es[i].csite, EdgeTarget(es[i])>>]

\* callees reading the incoming edge list instead of the outgoing one.
calleesIncoming(g, idx) ==
    LET es == EdgesDirected(g, idx, "Incoming")
    IN [i \in 1..Len(es) |-> <<es[i].csite, EdgeTarget(es[i])>>]

\* CGInfo::callees: |er| (er.weight().csite, er.target()) over outgoing edges.
callees(g, idx) ==
    LET es == EdgesDirected(g, idx, "Outgoing")
    IN [i \in 1..Len(es) |-> <<es[i].csite, EdgeTarget(es[i])>>]

\* No query made yet.
NoQuery == [op |-> "none", idx |-> 0, items |-> <<>>]

\* #[derive(Default)] on RadecoModule.
DefaultRadecoModule ==
    [symbols |-> <<>>, sections |-> <<>>, imports |-> EmptyMap,
     exports |-> <<>>, relocs |-> <<>>, libs |-> <<>>, entrypoint |-> <<>>,
     callgraph |-> EmptyGraph, functions |-> EmptyMap, source |-> None]

---------------------------------------------------------------------------
(* Binding inference: ModuleLoader::init_fn_bindings.                      *)

RegisterArgument(i) == [kind |-> "RegisterArgument", pos |-> i]

Return == [kind |-> "Return", pos |-> 0]

\* BindingType::default() is Unknown.
Unknown == [kind |-> "Unknown", pos |-> 0]

\* VarBinding::default().
DefaultVarBinding ==
    [btype |-> Unknown, name |-> "", ridx |-> None, idx |-> DefaultNodeIndex]

\* The aliases init_fn_bindings looks for, in the order of its array.
BindingAliases == <<"A0", "A1", "A2", "A3", "A4", "A5", "SN">>

\* Iterator::position over BindingAliases: Some(index from 0) or None.
AliasPosition(alias) ==
    IF \E i \in 1..Len(BindingAliases) : BindingAliases[i] = alias
    THEN Some((CHOOSE i \in 1..Len(BindingAliases) : BindingAliases[i] = alias) - 1)
    ELSE None

RECURSIVE FindComment(_, _)
\* Iterator::find over a snapshot: the first operand whose node is
\* Comment(reg), or NodeIndex::end() when there is none.
FindComment(state, reg) ==
    IF state = <<>> THEN NodeIndexEnd
    ELSE IF Head(state).comment = Some(reg) THEN Head(state).node
         ELSE FindComment(Tail(state), reg)

\* SubRegisterFile::register_id_by_alias: the register id of an alias.
RegisterIdByAlias(alias) ==
    CASE alias = "A0" -> Some(5)
      [] alias = "A1" -> Some(4)
      [] alias = "A2" -> Some(3)
      [] alias = "A5" -> Some(9)
      [] alias = "SN" -> Some(0)
      [] OTHER -> None

\* A closure that resolves the return value from the entry snapshot too.
BindingForEntryOnly(reg, entry_state, exit_state) ==
    LET p == AliasPosition(reg[1]) IN
    IF IsSome(p)
    THEN Some([DefaultVarBinding EXCEPT
                   !.btype = IF Unwrap(p) < 6 THEN RegisterArgument(Unwrap(p)) ELSE Return,
                   !.idx = FindComment(entry_state, reg[2]),
                   !.ridx = RegisterIdByAlias(reg[1])])
    ELSE None

\* The filter_map closure: the binding for one alias-table entry
\* <<alias, register name>>, or None for an alias that is not looked for.
BindingFor(reg, entry_state, exit_state) ==
    LET p == AliasPosition(reg[1]) IN
    IF IsSome(p)
    THEN Some([DefaultVarBinding EXCEPT
                   !.btype = IF Unwrap(p) < 6 THEN RegisterArgument(Unwrap(p)) ELSE Return,
                   !.idx = IF Unwrap(p) < 6 THEN FindComment(entry_state, reg[2])
                                            ELSE FindComment(exit_state, reg[2]),
                   !.ridx = RegisterIdByAlias(reg[1])])
    ELSE None

\* A comparator without the two arms that order an argument against a
\* non-argument.
BindingCmpArgsOnly(x, y) ==
    IF x.btype.kind = "RegisterArgument" /\ y.btype.kind = "RegisterArgument"
    THEN (IF x.btype.pos < y.btype.pos THEN "Less"
          ELSE IF x.btype.pos > y.btype.pos THEN "Greater" ELSE "Equal")
    ELSE "Equal"

\* The comparator handed to sort_by.
BindingCmp(x, y) ==
    IF x.btype.kind = "RegisterArgument" /\ y.btype.kind = "RegisterArgument"
    THEN (IF x.btype.pos < y.btype.pos THEN "Less"
          ELSE IF x.btype.pos > y.btype.pos THEN "Greater" ELSE "Equal")
    ELSE IF x.btype.kind = "RegisterArgument" THEN "Less"
    ELSE IF y.btype.kind = "RegisterArgument" THEN "Greater"
    ELSE "Equal"

RECURSIVE InsertSorted(_, _)
\* x is placed after every element of the sorted sequence s that does not
\* compare Greater than it (so equal elements keep their order).
InsertSorted(s, x) ==
    IF s = <<>> THEN <<x>>
    ELSE IF BindingCmp(s[Len(s)], x) = "Greater"
         THEN Append(InsertSorted(SubSeq(s, 1, Len(s) - 1), x), s[Len(s)])
         ELSE Append(s, x)

RECURSIVE SortFrom(_, _)
SortFrom(sorted, rest) ==
    IF rest = <<>> THEN sorted
    ELSE SortFrom(InsertSorted(sorted, Head(rest)), Tail(rest))

\* slice::sort_by: a stable sort (an insertion sort on slices this short).
SortBindings(s) == SortFrom(<<>>, s)

\* The expect() calls at the top of init_fn_bindings succeed.
HasSnapshots(ssa) ==
    /\ IsSome(ssa.entry) /\ IsSome(ssa.exit)
    /\ IsSome(ssa.entry_regs) /\ IsSome(ssa.exit_regs)

RECURSIVE CollectBindings(_, _, _)
\* filter_map(...).collect() over the alias table in iteration order.
CollectBindings(alias_info, entry_state, exit_state) ==
    IF alias_info = <<>> THEN <<>>
    ELSE BindingFor(Head(alias_info), entry_state, exit_state)
             \o CollectBindings(Tail(alias_info), entry_state, exit_state)

\* init_fn_bindings as one call: [panic, rfn].
InitFnBindings(f, alias_info) ==
    IF ~HasSnapshots(f.ssa) THEN [panic |-> TRUE, rfn |-> f]
    ELSE [panic |-> FALSE,
          rfn |-> [f EXCEPT !.bindings =
                       SortBindings(CollectBindings(alias_info,
                                                    Unwrap(f.ssa.entry_regs),
                                                    Unwrap(f.ssa.exit_regs)))]]

---------------------------------------------------------------------------
(* Inputs: what a Source answers.  Addresses are 0x1000, 0x2000, 0x3000.   *)

Sym(stype, name, vaddr, size) ==
    [stype |-> stype, name |-> name, vaddr |-> vaddr, size |-> size]

FnInfo(name, offset, size, callrefs, datarefs) ==
    [name |-> name, offset |-> offset, size |-> size,
     callrefs |-> callrefs, datarefs |-> datarefs]

\* A call reference of a function: call-site address and target address.
CallRef(csite, target) == [csite |-> csite, target |-> target]

SymsMainObjF ==
    <<Sym(Some("Func"), Some("main"), Some(4096), Some(16)),
      Sym(Some("Object"), Some("obj"), Some(12288), Some(4)),
      Sym(Some("Func"), Some("f"), Some(8192), Some(8))>>

SymsF == <<Sym(Some("Func"), Some("f"), Some(8192), Some(8))>>

SymsDup ==
    <<Sym(Some("Func"), Some("f"), Some(8192), Some(8)),
      Sym(Some("Func"), Some("f2"), Some(8192), Some(4))>>

SymsNoName ==
    <<Sym(Some("Func"), None, Some(4096), Some(16)),
      Sym(Some("Func"), Some("f"), Some(8192), Some(8))>>

SymsH ==
    <<Sym(None, None, None, None),
      Sym(Some("Func"), Some("h"), Some(12288), Some(0))>>

SymbolLists == {<<>>, SymsF, SymsMainObjF, SymsDup, SymsNoName, SymsH}

FnsG == <<FnInfo(Some("g"), Some(8192), Some(12), <<>>, Some(<<24576>>))>>

FnsMainG ==
    <<FnInfo(Some("main"), Some(4096), Some(16),
             <<CallRef(4100, 8192), CallRef(4104, 8192), CallRef(4108, 1024)>>, None),
      FnInfo(Some("g"), Some(8192), Some(12), <<CallRef(8196, 20480)>>,
             Some(<<24576>>))>>

FnsDup ==
    <<FnInfo(Some("g"), Some(8192), Some(12), <<>>, None),
      FnInfo(Some("g2"), Some(8192), Some(20), <<>>, None)>>

FunctionLists == {<<>>, FnsG, FnsMainG, FnsDup}

ImportsPutsRead ==
    <<[plt |-> Some(1024), name |-> Some("puts")],
      [plt |-> Some(1032), name |-> Some("read")]>>

ImportsNoPlt ==
    <<[plt |-> None, name |-> Some("exit")],
      [plt |-> Some(1024), name |-> Some("puts")]>>

ImportsNoName == <<[plt |-> Some(1024), name |-> None]>>

ImportLists == {<<>>, ImportsPutsRead, ImportsNoPlt, ImportsNoName}

\* The fallible queries of the Source contract.
Queries ==
    {"symbols", "sections", "imports", "exports", "relocs", "libraries",
     "entrypoint", "functions", "register_profile", "disassemble_n_bytes"}

Answer(fails, q, v) == IF q \in fails THEN Err ELSE Ok(v)

\* A Source whose queries in `fails` return Err and the others the given data.
MkSource(symbols, imports, functions, fails) ==
    [symbols |-> Answer(fails, "symbols", symbols),
     sections |-> Answer(fails, "sections", <<"text">>),
     imports |-> Answer(fails, "imports", imports),
     exports |-> Answer(fails, "exports", <<"exp">>),
     relocs |-> Answer(fails, "relocs", <<"rel">>),
     libraries |-> Answer(fails, "libraries", <<"libc">>),
     entrypoint |-> Answer(fails, "entrypoint", <<4096>>),
     functions |-> Answer(fails, "functions", functions),
     register_profile |-> Answer(fails, "register_profile", <<"regs">>),
     disassemble_n_bytes |-> Answer(fails, "disassemble_n_bytes", <<>>)]

Fn(name, offset, size) ==
    [DefaultRadecoFunction EXCEPT !.name = name, !.offset = offset, !.size = size]

\* Results a caller-supplied strategy may return.
CustomOutputs ==
    { [functions |-> (8192 :> Fn("s", 8192, 4)), new |-> 1],
      [functions |-> (4096 :> Fn("t", 4096, 2)) @@ (8192 :> Fn("u", 8192, 6)),
       new |-> 2] }

CustomStrategies ==
    { [kind |-> "custom", pred |-> p, out |-> o] :
          p \in {"always", "if_empty", "never"}, o \in CustomOutputs }

---------------------------------------------------------------------------
(* ModuleLoader::load, stage by stage.  A stage result is [panic, rmod].   *)

Done(m) == [panic |-> FALSE, rmod |-> m]

Abort(m) == [panic |-> TRUE, rmod |-> m]

\* ImportInfo::new_stub(plt, name): a stub with a blank inner function.
NewStub(plt, name) == [plt |-> plt, name |-> name, rfn |-> DefaultRadecoFunction]

RECURSIVE CollectImportsStopAtNoPlt(_, _)
\* A collection that ends at the first entry without a PLT address.
CollectImportsStopAtNoPlt(infos, m) ==
    IF infos = <<>> THEN [panic |-> FALSE, map |-> m]
    ELSE LET ii == Head(infos) IN
         IF IsSome(ii.plt)
         THEN IF IsSome(ii.name)
              THEN CollectImportsStopAtNoPlt(Tail(infos),
                                  MapInsert(m, Unwrap(ii.plt),
                                            NewStub(Unwrap(ii.plt), Unwrap(ii.name))))
              ELSE [panic |-> TRUE, map |-> m]
         ELSE [panic |-> FALSE, map |-> m]

RECURSIVE CollectImports(_, _)
\* import_info.iter().filter_map(...).collect() into the imports HashMap.
CollectImports(infos, m) ==
    IF infos = <<>> THEN [panic |-> FALSE, map |-> m]
    ELSE LET ii == Head(infos) IN
         IF IsSome(ii.plt)
         THEN IF IsSome(ii.name)
              THEN CollectImports(Tail(infos),
                                  MapInsert(m, Unwrap(ii.plt),
                                            NewStub(Unwrap(ii.plt), Unwrap(ii.name))))
              ELSE [panic |-> TRUE, map |-> m]
         ELSE CollectImports(Tail(infos), m)

\* A query result stored in its field, or the field's default on Err.
OrDefault(res, default) == IF res.ok THEN res.val ELSE default

\* A seeding that gives up at the first failing query.
SeedMetadataFailFast(s) ==
    LET imp == IF s.imports.ok THEN CollectImports(s.imports.val, EmptyMap)
               ELSE [panic |-> FALSE, map |-> EmptyMap]
    IN IF \/ ~s.symbols.ok \/ ~s.sections.ok \/ ~s.imports.ok \/ ~s.exports.ok
          \/ ~s.relocs.ok \/ ~s.libraries.ok \/ ~s.entrypoint.ok
          \/ imp.panic
       THEN Abort(DefaultRadecoModule)
       ELSE Done([DefaultRadecoModule EXCEPT
                      !.symbols = s.symbols.val,
                      !.sections = s.sections.val,
                      !.imports = imp.map,
                      !.exports = s.exports.val,
                      !.relocs = s.relocs.val,
                      !.libs = s.libraries.val,
                      !.entrypoint = s.entrypoint.val])

\* Fill in module level information from the Source.
SeedMetadata(s) ==
    LET imp == IF s.imports.ok THEN CollectImports(s.imports.val, EmptyMap)
               ELSE [panic |-> FALSE, map |-> EmptyMap]
        m == [DefaultRadecoModule EXCEPT
                  !.symbols = OrDefault(s.symbols, <<>>),
                  !.sections = OrDefault(s.sections, <<>>),
                  !.imports = imp.map,
                  !.exports = OrDefault(s.exports, <<>>),
                  !.relocs = OrDefault(s.relocs, <<>>),
                  !.libs = OrDefault(s.libraries, <<>>),
                  !.entrypoint = OrDefault(s.entrypoint, <<>>)]
    IN IF imp.panic
       THEN Abort([DefaultRadecoModule EXCEPT
                       !.symbols = OrDefault(s.symbols, <<>>),
                       !.sections = OrDefault(s.sections, <<>>)])
       ELSE Done(m)

\* The filter functions a caller may configure.
FilterFn(kind, f) ==
    CASE kind = "min_size_10" -> f.size >= 10
      [] kind = "not_0x1000" -> f.offset # 4096

\* into_iter().filter(filter_fn).collect() when a filter is configured.
ApplyFilter(filter, functions) ==
    IF IsSome(filter)
    THEN [k \in {x \in DOMAIN functions : FilterFn(Unwrap(filter), functions[x])}
              |-> functions[k]]
    ELSE functions

\* The function loader load() uses: the configured one, or the default one
\* with include_defaults; its source is set to the module loader's source.
EffectiveFloader(ml, s) ==
    LET fl == IF IsSome(ml.floader) THEN Unwrap(ml.floader)
              ELSE [DefaultFunctionLoader EXCEPT !.strategies = IncludeDefaults(@)]
    IN [fl EXCEPT !.source = Some(s)]

\* Identify the functions and keep those passing the filter.
IdentifyFunctions(ml, s, m) ==
    LET r == FunctionLoaderLoad(EffectiveFloader(ml, s), m) IN
    IF r.panic THEN Abort(m)
    ELSE Done([m EXCEPT !.functions = ApplyFilter(ml.filter, r.fl.functions)])

\* Source::disassemble_n_bytes(size, offset): one op per 4 bytes.
DisassembleNBytes(s, size, offset) ==
    IF s.disassemble_n_bytes.ok
    THEN Ok([i \in 1..(size \div 4) |-> offset + 4 * (i - 1)])
    ELSE Err

\* Load instructions into functions; an Err gives an empty sequence.
Disassemble(s, m) ==
    [m EXCEPT !.functions =
         [k \in DOMAIN m.functions |->
              [m.functions[k] EXCEPT !.instructions =
                   OrDefault(DisassembleNBytes(s, m.functions[k].size,
                                               m.functions[k].offset), <<>>)]]]

\* SSAConstruct::construct(rfn, reg_p, assume_cc): the SSA is rebuilt from
\* the function's instructions; it has an entry and an exit node, each with
\* a register snapshot commented by the register names of the profile.
Construct(f, ascc) ==
    [f EXCEPT !.ssa =
         [entry |-> Some(0), exit |-> Some(1),
          entry_regs |-> Some(<<Operand(2, Some("rax")), Operand(3, Some("rsi")),
                                Operand(4, Some("rdi"))>>),
          exit_regs |-> Some(<<Operand(5 + Len(f.instructions), Some("rax")),
                               Operand(6 + Len(f.instructions), Some("rsi")),
                               Operand(7 + Len(f.instructions), Some("rdi"))>>)]]

\* A loop body whose construct numbers its nodes after a counter shared by
\* all calls (n calls were made before this one).
ConstructOneShared(functions, k, ascc, n) ==
    [functions EXCEPT ![k] =
         [Construct(@, ascc) EXCEPT !.ssa.entry = Some(n)]]

\* The loop body of both SSA loops: construct on the entry of key k only
\* (n calls were made before this one).
ConstructOne(functions, k, ascc, n) ==
    [functions EXCEPT ![k] = Construct(@, ascc)]

\* The smallest key of a non-empty set (BTreeMap iterates in key order).
MinKey(keys) == CHOOSE k \in keys : \A x \in keys : k <= x

RECURSIVE SerialSkippingEmpty(_, _, _, _)
\* A serial loop that skips the functions without instructions.
SerialSkippingEmpty(functions, todo, ascc, calls) ==
    IF todo = {} THEN [functions |-> functions, calls |-> calls]
    ELSE LET k == MinKey(todo) IN
         IF functions[k].instructions = <<>>
         THEN SerialSkippingEmpty(functions, todo \ {k}, ascc, calls)
         ELSE SerialSkippingEmpty(ConstructOne(functions, k, ascc, Len(calls)),
                                  todo \ {k}, ascc, Append(calls, k))

RECURSIVE ConstructSerial(_, _, _, _)
\* for (off, rfn) in rmod.functions.iter_mut() { construct(rfn, ..) }:
\* every key of todo, in key order.  The result carries the list of calls.
ConstructSerial(functions, todo, ascc, calls) ==
    IF todo = {} THEN [functions |-> functions, calls |-> calls]
    ELSE LET k == MinKey(todo) IN
         ConstructSerial(ConstructOne(functions, k, ascc, Len(calls)),
                         todo \ {k}, ascc, Append(calls, k))

\* A serial branch that leaves out the functions without instructions.
SSASerialSkipEmpty(m, ascc) ==
    SerialSkippingEmpty(m.functions, DOMAIN m.functions, ascc, <<>>)

\* The serial branch of the SSA stage.
SSASerial(m, ascc) ==
    ConstructSerial(m.functions, DOMAIN m.functions, ascc, <<>>)

\* A stub stage that runs only when SSA is built for the functions as well.
StubImportsWithSSA(ml, m) ==
    IF ml.stub_imports /\ ml.build_ssa
    THEN [m EXCEPT !.imports =
              [k \in DOMAIN m.imports |->
                   [m.imports[k] EXCEPT !.rfn = Construct(@, ml.assume_cc)]]]
    ELSE m

\* if self.stub_imports: construct on every import's inner function.
StubImports(ml, m) ==
    IF ml.stub_imports
    THEN [m EXCEPT !.imports =
              [k \in DOMAIN m.imports |->
                   [m.imports[k] EXCEPT !.rfn = Construct(@, ml.assume_cc)]]]
    ELSE m

\* Whether the graph has a node for the address, and that node's index.
HasNode(g, addr) == \E i \in 1..Len(g.nodes) : g.nodes[i] = addr

NodeOf(g, addr) == (CHOOSE i \in 1..Len(g.nodes) : g.nodes[i] = addr) - 1

EnsureNode(g, addr) == IF HasNode(g, addr) THEN g ELSE AddNode(g, addr)

RECURSIVE AddCallEdges(_, _, _)
\* One edge per call reference of the function at address `from`, adding a
\* node for a target not seen before.
AddCallEdges(g, from, refs) ==
    IF refs = <<>> THEN g
    ELSE LET g1 == EnsureNode(g, Head(refs).target)
         IN AddCallEdges(AddEdge(g1, NodeOf(g1, from), NodeOf(g1, Head(refs).target),
                                 Head(refs).csite),
                         from, Tail(refs))

RECURSIVE CallGraphOf(_, _)
CallGraphOf(infos, g) ==
    IF infos = <<>> THEN g
    ELSE LET fi == Head(infos) IN
         IF IsSome(fi.offset)
         THEN CallGraphOf(Tail(infos),
                          AddCallEdges(EnsureNode(g, Unwrap(fi.offset)),
                                       Unwrap(fi.offset), fi.callrefs))
         ELSE CallGraphOf(Tail(infos), g)

\* llanalyzer::load_call_graph(aux_info, rmod): a node per function of the
\* auxiliary list and per discovered call target, an edge per call.
LoadCallGraph(aux, m) == CallGraphOf(aux, EmptyGraph)

RECURSIVE FixupFrom(_, _)
\* The fix-up loop from node n on: the node's address is looked up in
\* functions first and imports second, and the entry found gets cgid = n.
FixupFrom(m, n) ==
    IF n >= Len(m.callgraph.nodes) THEN m
    ELSE LET addr == NodeWeight(m.callgraph, n) IN
         IF addr \in DOMAIN m.functions
         THEN FixupFrom([m EXCEPT !.functions[addr].cgid = n], n + 1)
         ELSE IF addr \in DOMAIN m.imports
              THEN FixupFrom([m EXCEPT !.imports[addr].rfn.cgid = n], n + 1)
              ELSE FixupFrom(m, n + 1)

\* if self.build_callgraph { ... }
BuildCallGraph(aux, m) ==
    FixupFrom([m EXCEPT !.callgraph = LoadCallGraph(aux, m)], 0)

RECURSIVE LoadDataRefs(_, _)
\* if self.load_datarefs { ... }: unwrap() of a missing offset aborts.
LoadDataRefs(aux, m) ==
    IF aux = <<>> THEN Done(m)
    ELSE LET fi == Head(aux) IN
         IF ~IsSome(fi.offset) THEN Abort(m)
         ELSE IF Unwrap(fi.offset) \in DOMAIN m.functions
              THEN LoadDataRefs(Tail(aux),
                                [m EXCEPT !.functions[Unwrap(fi.offset)].datarefs =
                                     IF IsSome(fi.datarefs) THEN Unwrap(fi.datarefs)
                                     ELSE <<>>])
              ELSE LoadDataRefs(Tail(aux), m)

\* An optional stage that ignores a load_locals request.
LoadOptionalSkipLocals(ml, s, m) ==
    IF ml.build_callgraph \/ ml.load_datarefs \/ ml.load_locals
    THEN LET aux == OrDefault(s.functions, <<>>)
             m1 == IF ml.build_callgraph THEN BuildCallGraph(aux, m) ELSE m
         IN IF ml.load_datarefs THEN LoadDataRefs(aux, m1) ELSE Done(m1)
    ELSE Done(m)

\* Load optional information: call graph, datarefs, locals.
LoadOptional(ml, s, m) ==
    IF ml.build_callgraph \/ ml.load_datarefs \/ ml.load_locals
    THEN LET aux == OrDefault(s.functions, <<>>)
             m1 == IF ml.build_callgraph THEN BuildCallGraph(aux, m) ELSE m
             r2 == IF ml.load_datarefs THEN LoadDataRefs(aux, m1) ELSE Done(m1)
         IN IF r2.panic THEN r2
            ELSE IF ml.load_locals THEN Abort(r2.rmod)
            ELSE r2
    ELSE Done(m)

\* The alias table of the register profile, in one iteration order (SpecBind
\* runs init_fn_bindings over every order).
ProfileAliases == <<<<"SN", "rax">>, <<"A1", "rsi">>, <<"PC", "rip">>, <<"A0", "rdi">>>>

\* llanalyzer::init_call_ctx fills the maps of the call-graph edges, which
\* the queries and the containers' other fields do not read.
InitCallCtx(m) == m

\* if self.build_callgraph && self.assume_cc { ... }
InitBindings(ml, m) ==
    IF ml.build_callgraph /\ ml.assume_cc
    THEN IF \/ \E k \in DOMAIN m.functions :
                   InitFnBindings(m.functions[k], ProfileAliases).panic
            \/ \E k \in DOMAIN m.imports :
                   InitFnBindings(m.imports[k].rfn, ProfileAliases).panic
         THEN Abort(m)
         ELSE Done(InitCallCtx(
                  [m EXCEPT
                       !.functions = [k \in DOMAIN m.functions |->
                                          InitFnBindings(m.functions[k], ProfileAliases).rfn],
                       !.imports = [k \in DOMAIN m.imports |->
                                        [m.imports[k] EXCEPT !.rfn =
                                             InitFnBindings(@, ProfileAliases).rfn]]]))
    ELSE Done(m)

---------------------------------------------------------------------------
(* Specification SpecFL: a FunctionLoader is configured with the builder   *)
(* methods and then load() folds over its strategies, one per step.        *)

\* Values of the variables an operation does not use.
Idle == "idle"

NoWorkers == {}

FLUnused == <<mloader, workers, regfile, rfn, tbindings, cg, qres>>

InitFL ==
    /\ pc = "build"
    /\ \E fl \in FunctionLists, fails \in {{}, {"functions"}} :
           src = MkSource(<<>>, <<>>, fl, fails)
    /\ \E sl \in SymbolLists : rmod = [DefaultRadecoModule EXCEPT !.symbols = sl]
    /\ floader = DefaultFunctionLoader
    /\ acc = DefaultFLResult
    /\ fidx = 0
    /\ hist = <<>>
    /\ mloader = Idle /\ workers = NoWorkers /\ regfile = Idle /\ rfn = Idle
    /\ tbindings = <<>> /\ cg = EmptyGraph /\ qres = NoQuery

\* FunctionLoader::strategy: push a strategy.
FLStrategy ==
    /\ pc = "build"
    /\ Len(floader.strategies) < MaxStrategies
    /\ \E s \in CustomStrategies :
           floader' = [floader EXCEPT !.strategies = Append(@, s)]
    /\ UNCHANGED <<pc, src, rmod, acc, fidx, hist>>
    /\ UNCHANGED FLUnused

\* FunctionLoader::include_defaults.
FLIncludeDefaults ==
    /\ pc = "build"
    /\ Len(floader.strategies) < MaxStrategies
    /\ floader' = [floader EXCEPT !.strategies = IncludeDefaults(@)]
    /\ UNCHANGED <<pc, src, rmod, acc, fidx, hist>>
    /\ UNCHANGED FLUnused

\* ModuleLoader::load sets the loader's source before calling load.
FLSetSource ==
    /\ pc = "build"
    /\ floader.source = None
    /\ floader' = [floader EXCEPT !.source = Some(src)]
    /\ UNCHANGED <<pc, src, rmod, acc, fidx, hist>>
    /\ UNCHANGED FLUnused

\* FunctionLoader::load: the fold starts from FLResult::default().
FLLoadBegin ==
    /\ pc = "build"
    /\ pc' = "fold"
    /\ acc' = DefaultFLResult
    /\ fidx' = 0
    /\ hist' = <<>>
    /\ UNCHANGED <<src, rmod, floader>>
    /\ UNCHANGED FLUnused

\* One iteration of the fold in which the strategy is invoked and returns.
FLRun ==
    /\ pc = "fold"
    /\ fidx < Len(floader.strategies)
    /\ LET it == FoldBody(acc, floader.strategies[fidx + 1], floader.source, rmod)
       IN /\ it.ran
          /\ ~it.panic
          /\ acc' = it.fl
          /\ hist' = Append(hist, [ran |-> TRUE, last |-> it.last, out |-> it.out])
    /\ fidx' = fidx + 1
    /\ UNCHANGED <<pc, src, rmod, floader>>
    /\ UNCHANGED FLUnused

\* One iteration of the fold in which the strategy is not invoked.
FLSkip ==
    /\ pc = "fold"
    /\ fidx < Len(floader.strategies)
    /\ LET it == FoldBody(acc, floader.strategies[fidx + 1], floader.source, rmod)
       IN /\ ~it.ran
          /\ acc' = it.fl
          /\ hist' = Append(hist, [ran |-> FALSE, last |-> it.last, out |-> it.out])
    /\ fidx' = fidx + 1
    /\ UNCHANGED <<pc, src, rmod, floader>>
    /\ UNCHANGED FLUnused

\* One iteration of the fold whose strategy panics on an unwrap() of None.
FLPanic ==
    /\ pc = "fold"
    /\ fidx < Len(floader.strategies)
    /\ FoldBody(acc, floader.strategies[fidx + 1], floader.source, rmod).panic
    /\ pc' = "panic"
    /\ UNCHANGED <<src, rmod, floader, acc, fidx, hist>>
    /\ UNCHANGED FLUnused

\* The fold has consumed every strategy: load returns acc.
FLLoadEnd ==
    /\ pc = "fold"
    /\ fidx = Len(floader.strategies)
    /\ pc' = "done"
    /\ UNCHANGED <<src, rmod, floader, acc, fidx, hist>>
    /\ UNCHANGED FLUnused

NextFL ==
    \/ FLStrategy
    \/ FLIncludeDefaults
    \/ FLSetSource
    \/ FLLoadBegin
    \/ FLRun
    \/ FLSkip
    \/ FLPanic
    \/ FLLoadEnd

SpecFL == InitFL /\ [][NextFL]_vars

\* ModuleLoader::load from its first line to its last when `parallel` is
\* unset: the stages in sequence, the SSA stage by the serial loop.
LoadSerially(ml, s) ==
    LET r1 == SeedMetadata(s)
        r2 == IdentifyFunctions(ml, s, r1.rmod)
        m3 == Disassemble(s, r2.rmod)
        m4 == IF ml.build_ssa
              THEN [m3 EXCEPT !.functions = SSASerial(m3, ml.assume_cc).functions]
              ELSE m3
        m5 == StubImports(ml, m4)
        r6 == LoadOptional(ml, s, m5)
        r7 == InitBindings(ml, r6.rmod)
    IN IF r1.panic THEN r1
       ELSE IF r2.panic THEN r2
       ELSE IF ~s.register_profile.ok THEN Abort(m3)
       ELSE IF r6.panic THEN r6
       ELSE IF r7.panic THEN r7
       ELSE Done([r7.rmod EXCEPT !.source = Some("source")])

---------------------------------------------------------------------------
(* Specification Spec: ModuleLoader::load on a configured loader and a     *)
(* Source, one stage per step; the parallel SSA fan-out one worker per     *)
(* step, in any order.                                                     *)

\* What a Source holds: its symbols, imports and functions.
Scenarios ==
    { <<<<>>, <<>>, <<>>>>,
      <<SymsMainObjF, ImportsPutsRead, FnsMainG>>,
      <<SymsF, ImportsNoPlt, FnsG>>,
      <<SymsNoName, <<>>, <<>>>>,
      <<<<>>, ImportsNoName, <<>>>>,
      <<SymsH, ImportsPutsRead, FnsMainG>>,
      <<SymsDup, <<>>, FnsDup>> }

\* Which queries fail: none, or any single one.
FailSets == {{}} \cup {{q} : q \in Queries}

Sources == { MkSource(sc[1], sc[2], sc[3], fails) : sc \in Scenarios, fails \in FailSets }

\* The function loader and filter a caller may configure: nothing, a filter,
\* or a function loader with the use-symbols strategy only.
LoaderSetups ==
    { [floader |-> None, filter |-> None],
      [floader |-> None, filter |-> Some("min_size_10")],
      [floader |-> Some([DefaultFunctionLoader EXCEPT !.strategies = <<UseSymbols>>]),
       filter |-> Some("not_0x1000")] }

\* Every ModuleLoader the builder methods can produce over those setups.
ModuleLoaders ==
    { [floader |-> su.floader, filter |-> su.filter,
       build_callgraph |-> bc, build_ssa |-> bs, load_datarefs |-> ld,
       load_locals |-> ll, parallel |-> par, assume_cc |-> cc, stub_imports |-> si] :
          su \in LoaderSetups, bc \in BOOLEAN, bs \in BOOLEAN, ld \in BOOLEAN,
          ll \in BOOLEAN, par \in BOOLEAN, cc \in BOOLEAN, si \in BOOLEAN }

\* hist in this specification: how many times construct ran on each function.
NoCalls == EmptyMap

CountCall(h, k) == [x \in DOMAIN h \cup {k} |-> IF x = k THEN (IF k \in DOMAIN h THEN h[k] ELSE 0) + 1 ELSE h[x]]

RECURSIVE CountCalls(_, _)
CountCalls(h, calls) ==
    IF calls = <<>> THEN h ELSE CountCalls(CountCall(h, Head(calls)), Tail(calls))

RECURSIVE TotalCalls(_, _)
TotalCalls(h, keys) ==
    IF keys = {} THEN 0
    ELSE LET k == MinKey(keys) IN h[k] + TotalCalls(h, keys \ {k})

LoadUnused == <<floader, acc, fidx, regfile, rfn, tbindings, cg, qres>>

Init ==
    /\ pc = "seed"
    /\ src \in Sources
    /\ mloader \in ModuleLoaders
    /\ rmod = DefaultRadecoModule
    /\ hist = NoCalls
    /\ workers = {}
    /\ floader = Idle /\ acc = DefaultFLResult /\ fidx = 0
    /\ regfile = Idle /\ rfn = Idle /\ tbindings = <<>>
    /\ cg = EmptyGraph /\ qres = NoQuery

\* A stage that may abort moves to `next` or to "panic".
Advance(r, next) ==
    /\ pc' = IF r.panic THEN "panic" ELSE next
    /\ rmod' = IF r.panic THEN rmod ELSE r.rmod

\* Module level information is fetched from the Source.
LoadSeed ==
    /\ pc = "seed"
    /\ Advance(SeedMetadata(src), "identify")
    /\ UNCHANGED <<src, mloader, hist, workers>>
    /\ UNCHANGED LoadUnused

\* The function loader runs and the filter is applied.
LoadIdentify ==
    /\ pc = "identify"
    /\ Advance(IdentifyFunctions(mloader, src, rmod), "disassemble")
    /\ UNCHANGED <<src, mloader, hist, workers>>
    /\ UNCHANGED LoadUnused

\* Instructions are loaded into the functions.
LoadDisassemble ==
    /\ pc = "disassemble"
    /\ rmod' = Disassemble(src, rmod)
    /\ pc' = "regprofile"
    /\ UNCHANGED <<src, mloader, hist, workers>>
    /\ UNCHANGED LoadUnused

\* source.register_profile().expect(...): Err aborts.
LoadRegisterProfile ==
    /\ pc = "regprofile"
    /\ pc' = IF src.register_profile.ok THEN "ssa" ELSE "panic"
    /\ UNCHANGED <<src, mloader, rmod, hist, workers>>
    /\ UNCHANGED LoadUnused

\* build_ssa is unset: no SSA is constructed for the functions.
LoadSSASkip ==
    /\ pc = "ssa"
    /\ ~mloader.build_ssa
    /\ pc' = "stubs"
    /\ UNCHANGED <<src, mloader, rmod, hist, workers>>
    /\ UNCHANGED LoadUnused

\* build_ssa without parallel: the loop over the functions in key order.
LoadSSASerial ==
    /\ pc = "ssa"
    /\ mloader.build_ssa /\ ~mloader.parallel
    /\ LET r == SSASerial(rmod, mloader.assume_cc)
       IN /\ rmod' = [rmod EXCEPT !.functions = r.functions]
          /\ hist' = CountCalls(hist, r.calls)
    /\ pc' = "stubs"
    /\ UNCHANGED <<src, mloader, workers>>
    /\ UNCHANGED LoadUnused

\* build_ssa with parallel: par_iter_mut hands every entry to a worker.
LoadSSAFork ==
    /\ pc = "ssa"
    /\ mloader.build_ssa /\ mloader.parallel
    /\ workers' = DOMAIN rmod.functions
    /\ pc' = "ssa_par"
    /\ UNCHANGED <<src, mloader, rmod, hist>>
    /\ UNCHANGED LoadUnused

\* One worker runs the closure on its entry.
LoadSSAWorker ==
    /\ pc = "ssa_par"
    /\ \E k \in workers :
           /\ rmod' = [rmod EXCEPT !.functions =
                           ConstructOne(@, k, mloader.assume_cc,
                                        TotalCalls(hist, DOMAIN hist))]
           /\ hist' = CountCall(hist, k)
           /\ workers' = workers \ {k}
    /\ UNCHANGED <<pc, src, mloader>>
    /\ UNCHANGED LoadUnused

\* for_each returns when every worker has finished.
LoadSSAJoin ==
    /\ pc = "ssa_par"
    /\ workers = {}
    /\ pc' = "stubs"
    /\ UNCHANGED <<src, mloader, rmod, hist, workers>>
    /\ UNCHANGED LoadUnused

\* if self.stub_imports { ... }
LoadStubImports ==
    /\ pc = "stubs"
    /\ rmod' = StubImports(mloader, rmod)
    /\ pc' = "optional"
    /\ UNCHANGED <<src, mloader, hist, workers>>
    /\ UNCHANGED LoadUnused

\* Call graph, datarefs and locals, as configured.
LoadOptionalInfo ==
    /\ pc = "optional"
    /\ Advance(LoadOptional(mloader, src, rmod), "bindings")
    /\ UNCHANGED <<src, mloader, hist, workers>>
    /\ UNCHANGED LoadUnused

\* Bindings are initialized when build_callgraph && assume_cc.
LoadInitBindings ==
    /\ pc = "bindings"
    /\ Advance(InitBindings(mloader, rmod), "attach")
    /\ UNCHANGED <<src, mloader, hist, workers>>
    /\ UNCHANGED LoadUnused

\* The source is stored in the module and the module returned.
LoadReturn ==
    /\ pc = "attach"
    /\ rmod' = [rmod EXCEPT !.source = Some("source")]
    /\ pc' = "done"
    /\ UNCHANGED <<src, mloader, hist, workers>>
    /\ UNCHANGED LoadUnused

Next ==
    \/ LoadSeed
    \/ LoadIdentify
    \/ LoadDisassemble
    \/ LoadRegisterProfile
    \/ LoadSSASkip
    \/ LoadSSASerial
    \/ LoadSSAFork
    \/ LoadSSAWorker
    \/ LoadSSAJoin
    \/ LoadStubImports
    \/ LoadOptionalInfo
    \/ LoadInitBindings
    \/ LoadReturn

Spec == Init /\ [][Next]_vars

---------------------------------------------------------------------------
(* Claims about ModuleLoader::load (Spec).                                 *)

\* The entries of functions and of the imports' inner functions whose cgid is n.
CgidOwners(n) ==
    {<<"function", k>> : k \in {x \in DOMAIN rmod.functions : rmod.functions[x].cgid = n}}
        \cup
    {<<"import", k>> : k \in {x \in DOMAIN rmod.imports : rmod.imports[x].rfn.cgid = n}}

\* C4: after load with build_callgraph, every node n of the call graph has
\* exactly one entry among functions and the imports' inner functions with
\* cgid = n.
C4_ExactlyOneOwner ==
    (pc = "done" /\ mloader.build_callgraph) =>
        \A n \in NodeIndices(rmod.callgraph) : Cardinality(CgidOwners(n)) = 1

\* The module as a load with `parallel` unset builds it from the same source
\* and the same other flags.
SerialModule == LoadSerially([mloader EXCEPT !.parallel = FALSE], src)

\* C6, the state part: a finished load, parallel or not, has built the module
\* the serial load builds, and aborts exactly when the serial load aborts.
C6_SameAsSerial ==
    /\ pc = "done" => (~SerialModule.panic /\ rmod = SerialModule.rmod)
    /\ pc = "panic" => SerialModule.panic

\* C6, the step part: a worker changes the functions entry it was given and
\* nothing else of the module.
C6_WorkerWritesOwnEntry ==
    (pc = "ssa_par" /\ workers' # workers) =>
        /\ DOMAIN rmod'.functions = DOMAIN rmod.functions
        /\ \A k \in DOMAIN rmod.functions :
               k \notin (workers \ workers') => rmod'.functions[k] = rmod.functions[k]
        /\ [rmod' EXCEPT !.functions = rmod.functions] = rmod

\* C6: with parallel set, load yields the same final module as with parallel
\* unset, under every interleaving of the SSA workers; each worker writes
\* only its own function entry.
C6_ParallelEqualsSerial ==
    /\ []C6_SameAsSerial
    /\ [][C6_WorkerWritesOwnEntry]_vars

\* A finished parallel load of several functions with SSA, call-graph ids
\* and bindings.
C6_Witness ==
    /\ pc = "done"
    /\ mloader.parallel /\ mloader.build_ssa
    /\ mloader.build_callgraph /\ mloader.assume_cc
    /\ Cardinality(DOMAIN rmod.functions) >= 2
    /\ \A k \in DOMAIN rmod.functions :
           /\ rmod.functions[k].ssa # DefaultSSA
           /\ rmod.functions[k].bindings # <<>>
    /\ \E k \in DOMAIN rmod.functions : rmod.functions[k].cgid # DefaultNodeIndex

\* How many times construct ran on the function at k.
ConstructCalls(k) == IF k \in DOMAIN hist THEN hist[k] ELSE 0

\* C7: after load, with build_ssa unset every function has the default SSA
\* (construct ran on none); with build_ssa set construct ran exactly once
\* on every retained function and on nothing else, so every function with
\* instructions has a non-default SSA.
C7_SSAIffRequested ==
    pc = "done" =>
        /\ DOMAIN hist \subseteq DOMAIN rmod.functions
        /\ \A k \in DOMAIN rmod.functions :
               IF mloader.build_ssa
               THEN /\ ConstructCalls(k) = 1
                    /\ rmod.functions[k].instructions # <<>> =>
                           rmod.functions[k].ssa # DefaultSSA
               ELSE /\ ConstructCalls(k) = 0
                    /\ rmod.functions[k].ssa = DefaultSSA

\* A finished load with build_ssa over a function with instructions and one
\* without.
C7_Witness ==
    /\ pc = "done"
    /\ mloader.build_ssa
    /\ \E k \in DOMAIN rmod.functions :
           /\ rmod.functions[k].instructions # <<>>
           /\ rmod.functions[k].ssa # DefaultSSA
    /\ \E k \in DOMAIN rmod.functions :
           /\ rmod.functions[k].instructions = <<>>
           /\ ConstructCalls(k) = 1

\* Every Option field the loader unwraps is present in the source's data.
WellFormed(s) ==
    /\ \A i \in 1..Len(s.symbols.val) :
           LET x == s.symbols.val[i]
           IN IsFuncSymbol(x) => IsSome(x.name) /\ IsSome(x.vaddr) /\ IsSome(x.size)
    /\ \A i \in 1..Len(s.imports.val) :
           IsSome(s.imports.val[i].plt) => IsSome(s.imports.val[i].name)
    /\ \A i \in 1..Len(s.functions.val) :
           LET x == s.functions.val[i]
           IN IsSome(x.name) /\ IsSome(x.offset) /\ IsSome(x.size)

\* C10: load aborts only when the register profile cannot be fetched or
\* load_locals is set; for every other combination of flags and failing
\* source queries it runs to completion.
C10_AbortsOnlyAtSteps5And10 ==
    (pc = "panic" /\ WellFormed(src)) =>
        (~src.register_profile.ok \/ mloader.load_locals)

\* The PLT addresses of the import entries that have one.
KnownPlts(infos) ==
    {Unwrap(infos[i].plt) : i \in {x \in 1..Len(infos) : IsSome(infos[x].plt)}}

\* An import entry with a PLT address and no name: unwrap() of its name aborts.
HasNamelessImport(s) ==
    /\ s.imports.ok
    /\ \E i \in 1..Len(s.imports.val) :
           IsSome(s.imports.val[i].plt) /\ ~IsSome(s.imports.val[i].name)

\* C11, the state part: once the metadata is seeded, the field of a failed
\* query is at its default and the field of every query that succeeded
\* holds what the source answered.
C11_FieldsSeeded ==
    pc \notin {"seed", "panic"} =>
        /\ rmod.symbols = (IF src.symbols.ok THEN src.symbols.val ELSE <<>>)
        /\ rmod.sections = (IF src.sections.ok THEN src.sections.val ELSE <<>>)
        /\ DOMAIN rmod.imports =
               (IF src.imports.ok THEN KnownPlts(src.imports.val) ELSE {})
        /\ rmod.exports = (IF src.exports.ok THEN src.exports.val ELSE <<>>)
        /\ rmod.relocs = (IF src.relocs.ok THEN src.relocs.val ELSE <<>>)
        /\ rmod.libs = (IF src.libraries.ok THEN src.libraries.val ELSE <<>>)
        /\ rmod.entrypoint = (IF src.entrypoint.ok THEN src.entrypoint.val ELSE <<>>)

\* C11, the step part: a failing metadata query does not stop the load (the
\* seeding step goes on to function identification unless a nameless import
\* aborts it), and identification then runs on the seeded module.
C11_SeedingGoesOn ==
    /\ (pc = "seed" /\ pc' # "seed") =>
           (pc' = "identify" \/ (pc' = "panic" /\ HasNamelessImport(src)))
    /\ (pc = "identify" /\ pc' # "identify") =>
           /\ pc' \in {"disassemble", "panic"}
           /\ [rmod' EXCEPT !.functions = rmod.functions] = rmod

\* C11: when one of the queries symbols, sections, imports, exports, relocs,
\* libraries or entrypoint fails, the corresponding module field stays at
\* its default, the fields of the queries that succeeded are populated, and
\* loading continues through function identification.
C11_FailedQueryLeavesDefault ==
    /\ []C11_FieldsSeeded
    /\ [][C11_SeedingGoesOn]_vars

\* Function identification has run after the sections query failed: the
\* sections are empty, symbols and imports are populated, functions found.
C11_Witness ==
    /\ pc = "disassemble"
    /\ ~src.sections.ok
    /\ rmod.sections = <<>>
    /\ rmod.symbols # <<>>
    /\ DOMAIN rmod.imports # {}
    /\ rmod.libs # <<>>
    /\ DOMAIN rmod.functions # {}

\* C13: whenever load_locals is set, load never returns a module, whatever
\* the other flags: it never gets past the optional-information stage, and
\* when it reaches that stage it fails there.
C13_LoadLocalsRefused ==
    /\ [](mloader.load_locals => pc \notin {"bindings", "attach", "done"})
    /\ [][(pc = "optional" /\ pc' # "optional" /\ mloader.load_locals) =>
              pc' = "panic"]_vars

\* A load with load_locals as its only request, on a source whose queries
\* all succeed, has aborted in the optional-information stage after the
\* functions were identified and disassembled.
C13_Witness ==
    /\ pc = "panic"
    /\ mloader.load_locals
    /\ ~mloader.build_callgraph /\ ~mloader.load_datarefs
    /\ \A q \in Queries : src[q].ok
    /\ WellFormed(src)
    /\ \E k \in DOMAIN rmod.functions : rmod.functions[k].instructions # <<>>
    /\ LoadOptional(mloader, src, rmod).panic

\* C14: in every module load returns (and at every stage on the way), each
\* key of `functions` equals the offset field of the function stored under
\* it, whatever the strategy list and the filter.
C14_KeyIsOffset ==
    \A k \in DOMAIN rmod.functions : rmod.functions[k].offset = k

\* A returned module with a filter configured and the two functions main
\* and g, each filed under its own offset.
C14_Witness ==
    /\ pc = "done"
    /\ IsSome(mloader.filter)
    /\ Cardinality(DOMAIN rmod.functions) >= 2
    /\ \E k \in DOMAIN rmod.functions : rmod.functions[k].name = "g"
    /\ \E k \in DOMAIN rmod.functions : rmod.functions[k].name = "main"

\* C15: after a load whose imports query succeeded, the keys of `imports`
\* are exactly the PLT addresses of the source's import entries that have
\* one; each value is a stub whose plt is its key and whose name is the
\* name of an import entry with that PLT address; entries without a PLT
\* address are dropped and the others kept.
C15_ImportsKeyedByPlt ==
    (pc = "done" /\ src.imports.ok) =>
        /\ DOMAIN rmod.imports = KnownPlts(src.imports.val)
        /\ \A k \in DOMAIN rmod.imports :
               /\ rmod.imports[k].plt = k
               /\ \E i \in 1..Len(src.imports.val) :
                      /\ src.imports.val[i].plt = Some(k)
                      /\ src.imports.val[i].name = Some(rmod.imports[k].name)

\* A returned module whose source listed an import without a PLT address
\* ahead of one with it: only the latter is in `imports`.
C15_Witness ==
    /\ pc = "done"
    /\ src.imports.ok
    /\ \E i \in 1..Len(src.imports.val) : src.imports.val[i].plt = None
    /\ DOMAIN rmod.imports = {1024}
    /\ rmod.imports[1024].name = "puts"
    /\ rmod.imports[1024].plt = 1024

\* C18: once load is past the stub stage, every import's inner function has
\* a constructed SSA exactly when stub_imports is set, whatever build_ssa
\* and parallel are; with build_ssa unset the module's own functions keep
\* the default SSA all the same.
C18_StubsIffRequested ==
    pc \in {"optional", "bindings", "attach", "done"} =>
        /\ \A k \in DOMAIN rmod.imports :
               (rmod.imports[k].rfn.ssa # DefaultSSA) <=> mloader.stub_imports
        /\ ~mloader.build_ssa =>
               \A k \in DOMAIN rmod.functions : rmod.functions[k].ssa = DefaultSSA

\* A returned module with stub_imports set and build_ssa unset: the imports
\* have SSA and the functions do not.
C18_Witness ==
    /\ pc = "done"
    /\ mloader.stub_imports /\ ~mloader.build_ssa
    /\ Cardinality(DOMAIN rmod.imports) >= 2
    /\ \A k \in DOMAIN rmod.imports : rmod.imports[k].rfn.ssa # DefaultSSA
    /\ DOMAIN rmod.functions # {}
    /\ \A k \in DOMAIN rmod.functions : rmod.functions[k].ssa = DefaultSSA

---------------------------------------------------------------------------
(* Claims about the function-identification pipeline (SpecFL).             *)

\* Indices of the strategies that the finished fold invoked.
RanIdx == {i \in 1..Len(hist) : hist[i].ran}

\* The last invoked strategy whose output holds offset k.
LastProducer(k) ==
    CHOOSE i \in RanIdx :
        /\ k \in DOMAIN hist[i].out.functions
        /\ \A j \in RanIdx : k \in DOMAIN hist[j].out.functions => j <= i

\* C1: when load has run strategies [S1, S2] (generally: any list) whose
\* predicates held, the returned functions map is S1's output extended with
\* S2's output: every offset produced by a strategy is present, nothing else
\* is, and an offset produced by several strategies carries the entry of the
\* latest one.
C1_PipelineComposition ==
    (pc = "done" /\ \A i \in 1..Len(hist) : hist[i].ran) =>
        /\ DOMAIN acc.functions = UNION {DOMAIN hist[i].out.functions : i \in RanIdx}
        /\ \A k \in DOMAIN acc.functions :
               acc.functions[k] = hist[LastProducer(k)].out.functions[k]

\* A finished two-strategy load where both ran and disagree on a shared offset.
C1_Witness ==
    /\ pc = "done"
    /\ Len(floader.strategies) = 2
    /\ Len(hist) = 2 /\ hist[1].ran /\ hist[2].ran
    /\ \E k \in DOMAIN hist[1].out.functions \cap DOMAIN hist[2].out.functions :
           /\ hist[1].out.functions[k] # hist[2].out.functions[k]
           /\ acc.functions[k] = hist[2].out.functions[k]
    /\ DOMAIN hist[1].out.functions # DOMAIN hist[2].out.functions

RECURSIVE SumNew(_)
\* The sum of the `new` counters returned by the first i iterations.
SumNew(i) == IF i = 0 THEN 0 ELSE SumNew(i - 1) + hist[i].out.new

\* C2, the state part: the i-th strategy's `last` holds exactly the
\* discoveries of the strategies before it, and the first one gets the
\* empty FLResult.
C2_LastHoldsPrior ==
    pc \in {"fold", "done"} =>
        /\ Len(hist) = fidx
        /\ \A i \in 1..Len(hist) :
               /\ DOMAIN hist[i].last.functions =
                      UNION {DOMAIN hist[j].out.functions : j \in {x \in RanIdx : x < i}}
               /\ hist[i].last.new = SumNew(i - 1)
               /\ i = 1 => hist[i].last = DefaultFLResult

\* C2, the step part: the fold consumes the strategies in list order; the
\* strategy at position fidx is given the current accumulator, is invoked
\* exactly when its predicate holds of that accumulator, and a false
\* predicate leaves functions and `new` unchanged.
C2_StepInOrder ==
    (pc = "fold" /\ fidx' = fidx + 1) =>
        LET s == floader.strategies[fidx + 1]
            h == hist'[Len(hist')]
        IN /\ Len(hist') = fidx + 1
           /\ h.last = acc
           /\ h.ran = predicate(s, acc)
           /\ h.ran => h.out = strategy(s, floader.source, acc, rmod).fl
           /\ ~predicate(s, acc) => acc' = acc

\* C2: FunctionLoader::load evaluates the strategies in the order they were
\* added, starting from the empty FLResult; each strategy's predicate and
\* `last` argument are the accumulator of all earlier strategies, and a
\* strategy whose predicate is false is not invoked and changes nothing.
C2_OrderedFold ==
    /\ []C2_LastHoldsPrior
    /\ [][(pc = "build" /\ pc' = "fold") => acc' = DefaultFLResult /\ fidx' = 0]_vars
    /\ [][C2_StepInOrder]_vars

\* A finished load whose second strategy saw a non-empty accumulator and was
\* skipped because its predicate was false.
C2_Witness ==
    /\ pc = "done"
    /\ Len(hist) = 2
    /\ hist[1].ran /\ ~hist[2].ran
    /\ floader.strategies[2].pred = "if_empty"
    /\ DOMAIN hist[2].last.functions # {}
    /\ acc = hist[2].last

\* The index of the last source function reported at offset k.
LastSourceFn(fns, k) ==
    CHOOSE j \in 1..Len(fns) :
        /\ fns[j].offset = Some(k)
        /\ \A x \in 1..Len(fns) : fns[x].offset = Some(k) => x <= j

\* The strategy list ends with the two defaults, in order.
EndsWithDefaults(strategies) ==
    /\ Len(strategies) >= 2
    /\ strategies[Len(strategies) - 1] = UseSymbols
    /\ strategies[Len(strategies)] = UseSource

\* C3, the state part: with the defaults last and a source answering
\* functions(), an address that both a Func symbol and a source function
\* have carries the source's name and size.
C3_SourceOverridesSymbol ==
    (/\ pc = "done"
     /\ EndsWithDefaults(floader.strategies)
     /\ IsSome(floader.source)
     /\ src.functions.ok) =>
        \A i \in 1..Len(rmod.symbols) :
            LET s == rmod.symbols[i]
                fns == src.functions.val
            IN (IsFuncSymbol(s) /\ \E j \in 1..Len(fns) : fns[j].offset = s.vaddr) =>
                   LET k == Unwrap(s.vaddr)
                       f == fns[LastSourceFn(fns, k)]
                   IN /\ k \in DOMAIN acc.functions
                      /\ acc.functions[k].name = Unwrap(f.name)
                      /\ acc.functions[k].size = Unwrap(f.size)

\* C3: include_defaults appends use-symbols and then use-source after the
\* strategies already in the list, so that on a shared address the loaded
\* function carries the source's name and size, not the symbol's.
C3_IncludeDefaults ==
    /\ [][(pc = "build" /\ Len(floader'.strategies) = Len(floader.strategies) + 2) =>
              floader'.strategies = floader.strategies \o <<UseSymbols, UseSource>>]_vars
    /\ []C3_SourceOverridesSymbol

\* A finished load over [custom, use-symbols, use-source] where symbol "f"
\* and source function "g" share 0x2000 and the result is "g" with size 12.
C3_Witness ==
    /\ pc = "done"
    /\ Len(floader.strategies) = 3
    /\ floader.strategies[1].kind = "custom"
    /\ EndsWithDefaults(floader.strategies)
    /\ IsSome(floader.source) /\ src.functions.ok
    /\ \E i \in 1..Len(rmod.symbols) :
           /\ rmod.symbols[i] = Sym(Some("Func"), Some("f"), Some(8192), Some(8))
    /\ 8192 \in DOMAIN acc.functions
    /\ acc.functions[8192].name = "g"
    /\ acc.functions[8192].size = 12

\* The addresses of the Func symbols that have a name, an address and a size.
WellFormedFuncAddrs(symbols) ==
    {Unwrap(symbols[i].vaddr) :
         i \in {x \in 1..Len(symbols) :
                    /\ IsFuncSymbol(symbols[x])
                    /\ IsSome(symbols[x].name)
                    /\ IsSome(symbols[x].vaddr)
                    /\ IsSome(symbols[x].size)}}

\* C12: the use-symbols strategy never fails: load does not abort in it, and
\* whenever it ran it emitted exactly the well-formed Func symbols, a Func
\* symbol lacking a name, an address or a size being discarded.
C12_UseSymbolsNeverFails ==
    /\ pc = "panic" => floader.strategies[fidx + 1].kind # "use_symbols"
    /\ pc \in {"fold", "done"} =>
           \A i \in 1..Len(hist) :
               (hist[i].ran /\ floader.strategies[i].kind = "use_symbols") =>
                   DOMAIN hist[i].out.functions = WellFormedFuncAddrs(rmod.symbols)

\* C17: after FunctionLoader::load over any strategy list, the counter `new`
\* of the result equals the number of entries of its functions map.
C17_NewCountsFunctions ==
    pc = "done" => acc.new = Cardinality(DOMAIN acc.functions)

---------------------------------------------------------------------------
(* Specification SpecCG: a call graph is built node by node and edge by    *)
(* edge, and callers / callees are asked of it.                            *)

CGUnused == <<pc, src, floader, mloader, rmod, acc, fidx, hist, workers,
              regfile, rfn, tbindings>>

InitCG ==
    /\ cg = EmptyGraph
    /\ qres = NoQuery
    /\ pc = "graph"
    /\ src = Idle /\ floader = Idle /\ mloader = Idle /\ rmod = Idle
    /\ acc = DefaultFLResult /\ fidx = 0 /\ hist = <<>> /\ workers = NoWorkers
    /\ regfile = Idle /\ rfn = Idle /\ tbindings = <<>>

\* The entry address of the i-th function added: 0x1000, 0x2000, ...
NodeAddress(i) == 4096 * (i + 1)

\* A node is added for the next function address.
CGAddNode ==
    /\ Len(cg.nodes) < MaxNodes
    /\ cg' = AddNode(cg, NodeAddress(Len(cg.nodes)))
    /\ qres' = NoQuery
    /\ UNCHANGED CGUnused

\* The address of the next call instruction of the function at node a.
NextCallSite(g, a) ==
    NodeWeight(g, a) + 4 * (1 + Len(EdgesDirected(g, a, "Outgoing")))

\* A call edge a -> b is added at a fresh call site of a.
CGAddEdge ==
    /\ Len(cg.edges) < MaxEdges
    /\ \E a \in NodeIndices(cg), b \in NodeIndices(cg) :
           cg' = AddEdge(cg, a, b, NextCallSite(cg, a))
    /\ qres' = NoQuery
    /\ UNCHANGED CGUnused

\* callers(n) is called and its iterator drained.
CGCallers ==
    /\ \E n \in NodeIndices(cg) :
           qres' = [op |-> "callers", idx |-> n, items |-> callers(cg, n)]
    /\ UNCHANGED cg
    /\ UNCHANGED CGUnused

\* callees(n) is called and its iterator drained.
CGCallees ==
    /\ \E n \in NodeIndices(cg) :
           qres' = [op |-> "callees", idx |-> n, items |-> callees(cg, n)]
    /\ UNCHANGED cg
    /\ UNCHANGED CGUnused

NextCG ==
    \/ CGAddNode
    \/ CGAddEdge
    \/ CGCallers
    \/ CGCallees

SpecCG == InitCG /\ [][NextCG]_vars

\* How many times pair p occurs in the sequence s.
Count(s, p) == Cardinality({i \in 1..Len(s) : s[i] = p})

\* The positions of the edges entering n, and of those leaving n.
IncomingEdges(n) == {i \in 1..Len(cg.edges) : cg.edges[i].target = n}

OutgoingEdges(n) == {i \in 1..Len(cg.edges) : cg.edges[i].source = n}

\* C8: callers(n) yields, for each incoming edge of n, the pair
\* (edge.csite, source node of the edge): the calling function's node.
C8_CallersYieldSource ==
    qres.op = "callers" =>
        /\ Len(qres.items) = Cardinality(IncomingEdges(qres.idx))
        /\ \A i \in IncomingEdges(qres.idx) :
               LET p == <<cg.edges[i].csite, cg.edges[i].source>>
               IN Count(qres.items, p) =
                      Cardinality({j \in IncomingEdges(qres.idx) :
                                       <<cg.edges[j].csite, cg.edges[j].source>> = p})

\* C9: callees(n) yields exactly one pair (edge.csite, edge.target) per
\* outgoing edge of n: parallel edges each give their own pair, and edges
\* that do not leave n give none.
C9_CalleesPerOutgoingEdge ==
    qres.op = "callees" =>
        /\ Len(qres.items) = Cardinality(OutgoingEdges(qres.idx))
        /\ \A i \in 1..Len(qres.items) :
               \E j \in OutgoingEdges(qres.idx) :
                   qres.items[i] = <<cg.edges[j].csite, cg.edges[j].target>>
        /\ \A j \in OutgoingEdges(qres.idx) :
               LET p == <<cg.edges[j].csite, cg.edges[j].target>>
               IN Count(qres.items, p) =
                      Cardinality({x \in OutgoingEdges(qres.idx) :
                                       <<cg.edges[x].csite, cg.edges[x].target>> = p})

\* callees asked of a node with two parallel edges to one target and an
\* incoming edge that must not be reported.
C9_Witness ==
    /\ qres.op = "callees"
    /\ Len(qres.items) = 2
    /\ qres.items[1][2] = qres.items[2][2]
    /\ qres.items[1][1] # qres.items[2][1]
    /\ qres.items[1][2] # qres.idx
    /\ IncomingEdges(qres.idx) # {}

---------------------------------------------------------------------------
(* Specification SpecBind: init_fn_bindings on one function, one alias     *)
(* table entry per step, in an arbitrary iteration order of the table.     *)

MaxAliases == 4

\* alias -> physical register name, as a register profile gives them.
AliasTable ==
    { <<"A0", "rdi">>, <<"A1", "rsi">>, <<"A2", "rdx">>, <<"A5", "r9">>,
      <<"SN", "rax">>, <<"PC", "rip">> }

\* Every order in which a table of at most MaxAliases entries may be iterated.
AliasOrders ==
    { s \in UNION {[1..n -> AliasTable] : n \in 0..MaxAliases} :
          \A i, j \in 1..Len(s) : i # j => s[i] # s[j] }

\* SSA forms a function may carry when bindings are initialized.
BindSSAs ==
    { DefaultSSA,
      [entry |-> Some(1), exit |-> Some(2), entry_regs |-> None, exit_regs |-> None],
      [entry |-> Some(1), exit |-> Some(2),
       entry_regs |-> Some(<<Operand(5, Some("rsi")), Operand(4, Some("rdi"))>>),
       exit_regs |-> Some(<<Operand(9, Some("rax"))>>)],
      [entry |-> Some(1), exit |-> Some(2),
       entry_regs |-> Some(<<Operand(3, None), Operand(4, Some("rdi")),
                             Operand(6, Some("rdi"))>>),
       exit_regs |-> Some(<<>>)] }

BindUnused == <<src, floader, mloader, rmod, acc, hist, workers, cg, qres>>

InitBind ==
    /\ pc = "bind_entry"
    /\ \E ssa \in BindSSAs, stale \in {<<>>, <<DefaultVarBinding>>} :
           rfn = [Fn("f", 4096, 16) EXCEPT !.ssa = ssa, !.bindings = stale]
    /\ \E order \in AliasOrders : regfile = order
    /\ tbindings = <<>>
    /\ fidx = 0
    /\ src = Idle /\ floader = Idle /\ mloader = Idle /\ rmod = Idle
    /\ acc = DefaultFLResult /\ hist = <<>> /\ workers = NoWorkers
    /\ cg = EmptyGraph /\ qres = NoQuery

\* The entry and exit snapshots are fetched.
BindSnapshots ==
    /\ pc = "bind_entry"
    /\ HasSnapshots(rfn.ssa)
    /\ pc' = "bind_iter"
    /\ UNCHANGED <<rfn, regfile, tbindings, fidx>>
    /\ UNCHANGED BindUnused

\* An expect() on a missing entry node, exit node or snapshot aborts.
BindPanic ==
    /\ pc = "bind_entry"
    /\ InitFnBindings(rfn, regfile).panic
    /\ pc' = "panic"
    /\ UNCHANGED <<rfn, regfile, tbindings, fidx>>
    /\ UNCHANGED BindUnused

\* The closure runs on the next alias-table entry.
BindAlias ==
    /\ pc = "bind_iter"
    /\ fidx < Len(regfile)
    /\ tbindings' = tbindings \o BindingFor(regfile[fidx + 1],
                                            Unwrap(rfn.ssa.entry_regs),
                                            Unwrap(rfn.ssa.exit_regs))
    /\ fidx' = fidx + 1
    /\ UNCHANGED <<pc, rfn, regfile>>
    /\ UNCHANGED BindUnused

\* The collected bindings are sorted and stored in the function.
BindSortAndStore ==
    /\ pc = "bind_iter"
    /\ fidx = Len(regfile)
    /\ rfn' = [rfn EXCEPT !.bindings = SortBindings(tbindings)]
    /\ pc' = "bound"
    /\ UNCHANGED <<regfile, tbindings, fidx>>
    /\ UNCHANGED BindUnused

NextBind ==
    \/ BindSnapshots
    \/ BindPanic
    \/ BindAlias
    \/ BindSortAndStore

SpecBind == InitBind /\ [][NextBind]_vars

IsArg(b) == b.btype.kind = "RegisterArgument"

\* C5: after init_fn_bindings, whatever the iteration order of the alias
\* table, the bindings vector has all RegisterArgument entries first, in
\* non-decreasing position, and every other binding (Return) after them.
C5_ArgumentsFirstSorted ==
    pc = "bound" =>
        \A i, j \in 1..Len(rfn.bindings) :
            i < j =>
                /\ IsArg(rfn.bindings[j]) => IsArg(rfn.bindings[i])
                /\ (IsArg(rfn.bindings[i]) /\ IsArg(rfn.bindings[j])) =>
                       rfn.bindings[i].btype.pos <= rfn.bindings[j].btype.pos

\* The table was iterated SN first and A1 before A0, and the stored vector
\* is RegisterArgument(0), RegisterArgument(1), Return.
C5_Witness ==
    /\ pc = "bound"
    /\ Len(regfile) >= 3
    /\ regfile[1][1] = "SN" /\ regfile[2][1] = "A1" /\ regfile[3][1] = "A0"
    /\ Len(rfn.bindings) = 3
    /\ rfn.bindings[1].btype = RegisterArgument(0)
    /\ rfn.bindings[2].btype = RegisterArgument(1)
    /\ rfn.bindings[3].btype = Return

\* The first operand of a snapshot commented with the register name, or the
\* sentinel end index when the snapshot has none.
SnapshotNode(state, name) ==
    LET hits == {i \in 1..Len(state) : state[i].comment = Some(name)}
    IN IF hits = {} THEN NodeIndexEnd
       ELSE state[CHOOSE i \in hits : \A j \in hits : i <= j].node

\* The binding type and node the claim gives an alias-table entry.
ExpectedBinding(e) ==
    IF e[1] = "SN"
    THEN [btype |-> Return, idx |-> SnapshotNode(Unwrap(rfn.ssa.exit_regs), e[2])]
    ELSE [btype |-> RegisterArgument(Unwrap(AliasPosition(e[1]))),
          idx |-> SnapshotNode(Unwrap(rfn.ssa.entry_regs), e[2])]

\* The alias-table entries init_fn_bindings makes a binding for.
BoundEntries == {i \in 1..Len(regfile) : regfile[i][1] \in Range(BindingAliases)}

\* C16, the general part: the stored bindings replace the earlier ones and
\* hold exactly one binding per alias-table entry whose alias is among
\* A0..A5 and SN, of the type and node the entry determines.
C16_OnePerAlias ==
    pc = "bound" =>
        /\ Len(rfn.bindings) = Cardinality(BoundEntries)
        /\ \A i \in BoundEntries :
               Cardinality({j \in 1..Len(rfn.bindings) :
                                /\ rfn.bindings[j].btype = ExpectedBinding(regfile[i]).btype
                                /\ rfn.bindings[j].idx = ExpectedBinding(regfile[i]).idx}) = 1

\* C16, the example: aliases A0->rdi, A1->rsi, SN->rax with the entry
\* snapshot (rsi, rdi) and the exit snapshot (rax).
C16_Example ==
    (/\ pc = "bound"
     /\ Range(regfile) = {<<"A0", "rdi">>, <<"A1", "rsi">>, <<"SN", "rax">>}
     /\ rfn.ssa.entry_regs = Some(<<Operand(5, Some("rsi")), Operand(4, Some("rdi"))>>)
     /\ rfn.ssa.exit_regs = Some(<<Operand(9, Some("rax"))>>)) =>
        /\ Len(rfn.bindings) = 3
        /\ rfn.bindings[1].btype = RegisterArgument(0) /\ rfn.bindings[1].idx = 4
        /\ rfn.bindings[2].btype = RegisterArgument(1) /\ rfn.bindings[2].idx = 5
        /\ rfn.bindings[3].btype = Return /\ rfn.bindings[3].idx = 9

\* C16: init_fn_bindings overwrites the function's bindings with exactly one
\* binding per alias-table entry whose alias is in {A0..A5, SN}: Ai gives
\* RegisterArgument(i) on the entry-snapshot node commented with the
\* alias's register, SN gives Return resolved from the exit snapshot, and
\* the node is the sentinel end index when no snapshot node matches.
C16_BindingsPerAlias == C16_OnePerAlias /\ C16_Example

\* The example has run, with the table iterated in another order than the
\* result's.
C16_Witness ==
    /\ pc = "bound"
    /\ regfile = <<<<"SN", "rax">>, <<"A1", "rsi">>, <<"A0", "rdi">>>>
    /\ rfn.ssa.entry_regs = Some(<<Operand(5, Some("rsi")), Operand(4, Some("rdi"))>>)
    /\ Len(rfn.bindings) = 3
    /\ rfn.bindings[1].idx = 4 /\ rfn.bindings[2].idx = 5 /\ rfn.bindings[3].idx = 9

\* A binding left at the sentinel: the table names a register that the
\* snapshot it is looked up in does not hold.
C16_WitnessSentinel ==
    /\ pc = "bound"
    /\ \E j \in 1..Len(rfn.bindings) : rfn.bindings[j].idx = NodeIndexEnd
    /\ \E j \in 1..Len(rfn.bindings) : rfn.bindings[j].idx # NodeIndexEnd

=============================================================================
